---- MODULE Spec2Model ----
(***************************************************************************)
(* Model of simulate_queue (SimulateQueue.py): a discrete-event simulation *)
(* of a priority queue.  The state is the simpy environment (clock and     *)
(* pending events), the PriorityQueue object (heap and busy flag), the Job *)
(* objects, the job id counter and the total_jobs dictionary.  Each action *)
(* is the code one process runs between two suspensions (yield).           *)
(*                                                                         *)
(* simpy orders pending events by (time, priority, insertion number):      *)
(* the Initialize event of env.process(...) is URGENT at the current time, *)
(* env.timeout(d) is NORMAL at now + d.  `events` is kept in that order;   *)
(* an insertion goes behind every event of the same time and priority,     *)
(* which is what the increasing insertion number does.                     *)
(*                                                                         *)
(* Durations are drawn from bounded sets of naturals: the Poisson sampler  *)
(* returns naturals (0 included); the exponential sampler returns a        *)
(* non-negative real, of which the model keeps the whole values.           *)
(*                                                                         *)
(* The event simpy schedules when a serve process returns has no callback  *)
(* and changes nothing; it is left out.                                    *)
(***************************************************************************)
EXTENDS Integers, Sequences, FiniteSets, TLC

\* ---- bounds ----
NClasses == 2        \* arrival_rates.shape[0]
MaxUntil == 3        \* largest horizon passed to SimQueue.start
MaxDelay == 2        \* largest sampled interarrival delay
MaxService == 1      \* largest sampled service duration
MaxZeroDelays == 2   \* admissions after a sampled interarrival delay of 0 that a run is followed through

Classes == 0 .. (NClasses - 1)
Horizons == 0 .. MaxUntil
Delays == 0 .. MaxDelay
Services == 0 .. MaxService
\* a negative, a zero and a positive rate
Rates == {-1, 0, 1}

\* np.random.poisson(lam): ValueError for lam < 0, always 0 for lam = 0
PoissonFails(lam) == lam < 0
Poisson(lam) == IF lam = 0 THEN {0} ELSE Delays

\* np.random.exponential(scale): ValueError for scale < 0, always 0 for scale = 0
ExponentialFails(scale) == scale < 0
Exponential(scale) == IF scale = 0 THEN {0} ELSE Services

\* ---- simpy constants ----
URGENT == 0
NORMAL == 1
TICK == 1
\* Python's None in a time field
None == -1

VARIABLES
    arrival_rates, \* simulate_queue's arrival_rates, by class
    service_rate,  \* simulate_queue's service_rate
    status,      \* "created" | "running" | "halted" | "error"
    until,       \* horizon given to SimQueue.start (None before)
    now,         \* env.now
    events,      \* env's pending events, in processing order
    queue,       \* PriorityQueue.queue: the heap list of <<priority, job>>
    busy,        \* PriorityQueue.busy
    job_id,      \* SimQueue.job_id
    jobs,        \* the Job objects, in creation order
    total_jobs   \* the total_jobs dictionary

vars == <<arrival_rates, service_rate, status, until, now, events, queue, busy, job_id, jobs, total_jobs>>

\* ---- the event list ----
\* kind and arg name the process the event resumes (arg: the class of a
\* generator, the job of a serve process); local is the duration that process
\* sampled before it suspended (interarrival_time, service_time)
Ev(t, p, k, a, l) == [time |-> t, prio |-> p, kind |-> k, arg |-> a, local |-> l]

KeyLeq(e, f) == e.time < f.time \/ (e.time = f.time /\ e.prio <= f.prio)

\* env.schedule: behind every pending event whose (time, priority) is not larger
\* (the singleton sets of this module bind an argument's value once, so that a
\* chain of insertions is not evaluated again at every use of the list)
Schedule(evs, e) ==
    LET Put(q) == LET n == Cardinality({i \in 1 .. Len(q) : KeyLeq(q[i], e)})
                  IN  SubSeq(q, 1, n) \o <<e>> \o SubSeq(q, n + 1, Len(q))
    IN  CHOOSE r \in {Put(q) : q \in {evs}} : TRUE

\* env.process(gen): the Initialize event of the new process
Process(evs, t, k, a) == Schedule(evs, Ev(t, URGENT, k, a, 0))

\* env.timeout(d)
Timeout(evs, t, d, k, a) == Schedule(evs, Ev(t + d, NORMAL, k, a, d))

\* ---- Job ----
\* Job.__init__; a Job object is referred to by its position in `jobs`
NewJob(id, p) == [id |-> id, priority |-> p, enter_time |-> None, exit_time |-> None]

\* Job.__lt__
JobLt(J, a, b) == J[a].priority < J[b].priority

\* comparison of the heap's (priority, job) tuples: the first differing
\* component decides; two different jobs differ (object identity)
TupleLt(J, x, y) ==
    IF x[1] # y[1] THEN x[1] < y[1]
    ELSE IF x[2] = y[2] THEN FALSE
    ELSE JobLt(J, x[2], y[2])

\* ---- heapq (positions are 0-based as in heapq; heap[pos + 1] is the item) ----
RECURSIVE SiftDownLoop(_, _, _, _, _)
SiftDownLoop(J, heap, startpos, pos, newitem) ==
    IF pos > startpos /\ TupleLt(J, newitem, heap[((pos - 1) \div 2) + 1])
    THEN SiftDownLoop(J, [heap EXCEPT ![pos + 1] = heap[((pos - 1) \div 2) + 1]],
                      startpos, (pos - 1) \div 2, newitem)
    ELSE [heap EXCEPT ![pos + 1] = newitem]

SiftDown(J, heap, startpos, pos) == SiftDownLoop(J, heap, startpos, pos, heap[pos + 1])

RECURSIVE SiftUpLoop(_, _, _, _, _)
SiftUpLoop(J, heap, startpos, pos, newitem) ==
    LET endpos == Len(heap)
        leftpos == 2 * pos + 1
        rightpos == leftpos + 1
        childpos == IF rightpos < endpos
                       /\ ~TupleLt(J, heap[leftpos + 1], heap[rightpos + 1])
                    THEN rightpos ELSE leftpos
    IN  IF leftpos < endpos
        THEN SiftUpLoop(J, [heap EXCEPT ![pos + 1] = heap[childpos + 1]],
                        startpos, childpos, newitem)
        ELSE SiftDown(J, [heap EXCEPT ![pos + 1] = newitem], startpos, pos)

SiftUp(J, heap, pos) == SiftUpLoop(J, heap, pos, pos, heap[pos + 1])

\* mutant: the new item is appended and never sifted towards the root
HeapPushNoSift(J, heap, item) == Append(heap, item)

HeapPush(J, heap, item) == SiftDown(J, Append(heap, item), 0, Len(heap))

\* mutant: the root is returned and stays in the heap, the last item is lost
HeapPopKeepRoot(J, heap) ==
    LET rest == SubSeq(heap, 1, Len(heap) - 1)
    IN  IF rest # <<>> THEN [item |-> rest[1], heap |-> rest]
        ELSE [item |-> heap[Len(heap)], heap |-> rest]

\* heappop: [item |-> the returned item, heap |-> the heap afterwards]
HeapPop(J, heap) ==
    LET lastelt == heap[Len(heap)]
        rest == SubSeq(heap, 1, Len(heap) - 1)
    IN  IF rest # <<>>
        THEN [item |-> rest[1], heap |-> SiftUp(J, [rest EXCEPT ![1] = lastelt], 0)]
        ELSE [item |-> lastelt, heap |-> rest]

\* mutant: the job is pushed twice
AddTwice(J, heap, job, priority) ==
    HeapPush(J, HeapPush(J, heap, <<priority, job>>), <<priority, job>>)

\* PriorityQueue.add
Add(J, heap, job, priority) == HeapPush(J, heap, <<priority, job>>)

\* mutant: the loop suspends after each pop, busy left True
StartLoopYieldsAfterPop(J, heap, evs, t) ==
    IF heap = <<>>
    THEN [queue |-> heap, busy |-> FALSE, events |-> Timeout(evs, t, TICK, "start", 0)]
    ELSE [queue |-> HeapPop(J, heap).heap, busy |-> TRUE,
          events |-> Timeout(Process(evs, t, "serve_init", HeapPop(J, heap).item[2]),
                             t, TICK, "start", 0)]

\* ---- PriorityQueue.start: one run of the loop up to its yield ----
\* while the queue is not empty: busy = True, pop, env.process(server.serve(job));
\* on the empty queue: busy = False, yield env.timeout(1)
RECURSIVE StartLoop(_, _, _, _)
StartLoop(J, heap, evs, t) ==
    IF heap = <<>>
    THEN [queue |-> heap, busy |-> FALSE, events |-> Timeout(evs, t, TICK, "start", 0)]
    ELSE CHOOSE x \in {StartLoop(J, r.heap, Process(evs, t, "serve_init", r.item[2]), t) :
                          r \in {HeapPop(J, heap)}} : TRUE

\* the value of busy at each pass of PriorityQueue.start's loop through its
\* else branch (busy = True, pop, env.process), from the loop's test on
RECURSIVE StartBusy(_, _, _)
StartBusy(J, heap, b) ==
    IF heap = <<>> THEN <<>>
    ELSE <<b>> \o StartBusy(J, HeapPop(J, heap).heap, TRUE)

\* mutant: the record is replaced by the new entry instead of merged with it
MergeReplace(d, key, value) == [f \in {key} |-> value]

\* ---- the dictionary merge {**d, key: value} ----
Merge(d, key, value) == [f \in (DOMAIN d) \cup {key} |-> IF f = key THEN value ELSE d[f]]

\* ---- construction ----
\* SimQueue.__init__: for each class, a generate_jobs and a process_jobs process
RECURSIVE InitEvents(_)
InitEvents(n) ==
    IF n = 0 THEN <<>>
    ELSE Process(Process(InitEvents(n - 1), 0, "generate_init", n - 1), 0, "process_jobs", 0)

\* the construction with positive rates
Init ==
    /\ arrival_rates = [c \in Classes |-> 1]
    /\ service_rate = 1
    /\ status = "created"
    /\ until = None
    /\ now = 0
    /\ events = InitEvents(NClasses)
    /\ queue = <<>>
    /\ busy = FALSE
    /\ job_id = 0
    /\ jobs = <<>>
    /\ total_jobs = <<>>

\* the construction with any rates: simulate_queue checks none of its arguments
ConfigInit ==
    /\ arrival_rates \in [Classes -> Rates]
    /\ service_rate \in Rates
    /\ status = "created"
    /\ until = None
    /\ now = 0
    /\ events = InitEvents(NClasses)
    /\ queue = <<>>
    /\ busy = FALSE
    /\ job_id = 0
    /\ jobs = <<>>
    /\ total_jobs = <<>>

\* mutant: a horizon that is not ahead of the clock ends the run at once
StartHaltsAtOnce(u) ==
    /\ status = "created"
    /\ until' = u
    /\ IF u <= now
       THEN /\ status' = "halted"
            /\ events' = events
       ELSE /\ status' = "running"
            /\ events' = Schedule(events, Ev(u, URGENT, "until", 0, 0))
    /\ UNCHANGED <<arrival_rates, service_rate, now, queue, busy, job_id, jobs, total_jobs>>

\* ---- SimQueue.start / env.run(until) ----
\* until <= now is an error; otherwise the stop event is URGENT at `until`
Start(u) ==
    /\ status = "created"
    /\ until' = u
    /\ IF u <= now
       THEN /\ status' = "error"
            /\ events' = events
       ELSE /\ status' = "running"
            /\ events' = Schedule(events, Ev(u, URGENT, "until", 0, 0))
    /\ UNCHANGED <<arrival_rates, service_rate, now, queue, busy, job_id, jobs, total_jobs>>

\* env.step pops the first pending event and resumes its process
Next_ev == Head(events)
Running(k) == status = "running" /\ events # <<>> /\ Next_ev.kind = k

\* mutant: the run stops without moving the clock to the horizon
HaltKeepsClock ==
    /\ Running("until")
    /\ events' = Tail(events)
    /\ status' = "halted"
    /\ UNCHANGED <<arrival_rates, service_rate, until, now, queue, busy, job_id, jobs, total_jobs>>

\* the stop event: the run halts with now = until
Halt ==
    /\ Running("until")
    /\ now' = Next_ev.time
    /\ events' = Tail(events)
    /\ status' = "halted"
    /\ UNCHANGED <<arrival_rates, service_rate, until, queue, busy, job_id, jobs, total_jobs>>

\* the jobs admitted after an interarrival delay of 0: those admitted at the
\* instant of their class's previous admission (at 0 for the first of a class)
PrevOfClass(J, j) == {i \in 1 .. (j - 1) : J[i].priority = J[j].priority}
Max(S) == CHOOSE x \in S : \A y \in S : y <= x
ZeroAdmitted(J) == {j \in 1 .. Len(J) :
    J[j].enter_time = (IF PrevOfClass(J, j) = {} THEN 0 ELSE J[Max(PrevOfClass(J, j))].enter_time)}

\* A generator that keeps sampling 0 admits jobs without end at one instant; the
\* model follows a run through MaxZeroDelays such admissions and no further.
ZeroBudgetLeft == Cardinality(ZeroAdmitted(jobs)) < MaxZeroDelays

\* generate_jobs up to its first yield: sample, yield env.timeout(interarrival_time);
\* the sampler's exception leaves the process and ends env.run
GenerateInit(d) ==
    /\ Running("generate_init")
    /\ now' = Next_ev.time
    /\ IF PoissonFails(arrival_rates[Next_ev.arg])
       THEN /\ status' = "error"
            /\ events' = Tail(events)
       ELSE /\ d \in Poisson(arrival_rates[Next_ev.arg])
            /\ status' = status
            /\ events' = Timeout(Tail(events), Next_ev.time, d, "generate", Next_ev.arg)
    /\ UNCHANGED <<arrival_rates, service_rate, until, queue, busy, job_id, jobs, total_jobs>>

\* Job.start: the record the job writes for itself
JobStart(T, id, job) == [i \in (DOMAIN T) \cup {id} |->
    IF i = id THEN [priority |-> job.priority, enter_time |-> job.enter_time] ELSE T[i]]

\* mutant: the counter is assigned instead of incremented
NextIdIsOne(n) == 1

\* self.job_id += 1
NextId(n) == n + 1

\* generate_jobs from one yield to the next: new id, Job, queue.add, job.start,
\* sample, yield env.timeout(interarrival_time)
Generate(d) ==
    /\ Running("generate")
    /\ Next_ev.local = 0 => ZeroBudgetLeft
    /\ LET t == Next_ev.time
           class_id == Next_ev.arg
           id == NextId(job_id)
           job == Len(jobs) + 1
           J1 == Append(jobs, NewJob(id, class_id))
           J2 == [J1 EXCEPT ![job].enter_time = t]
       IN  /\ now' = t
           /\ job_id' = id
           /\ queue' = Add(J1, queue, job, class_id)
           /\ jobs' = J2
           /\ total_jobs' = JobStart(total_jobs, J2[job].id, J2[job])
           /\ IF PoissonFails(arrival_rates[class_id])
              THEN /\ status' = "error"
                   /\ events' = Tail(events)
              ELSE /\ d \in Poisson(arrival_rates[class_id])
                   /\ status' = status
                   /\ events' = Timeout(Tail(events), t, d, "generate", class_id)
    /\ UNCHANGED <<arrival_rates, service_rate, until, busy>>

\* mutant: the busy test is not negated
ProcessJobsWhenBusy ==
    /\ Running("process_jobs")
    /\ now' = Next_ev.time
    /\ events' = Timeout(IF busy /\ queue # <<>>
                         THEN Process(Tail(events), Next_ev.time, "start", 0)
                         ELSE Tail(events),
                         Next_ev.time, TICK, "process_jobs", 0)
    /\ UNCHANGED <<arrival_rates, service_rate, status, until, queue, busy, job_id, jobs, total_jobs>>

\* mutant: the poller suspends for two time units
ProcessJobsEveryOtherTick ==
    /\ Running("process_jobs")
    /\ now' = Next_ev.time
    /\ events' = Timeout(IF ~busy /\ queue # <<>>
                         THEN Process(Tail(events), Next_ev.time, "start", 0)
                         ELSE Tail(events),
                         Next_ev.time, 2 * TICK, "process_jobs", 0)
    /\ UNCHANGED <<arrival_rates, service_rate, status, until, queue, busy, job_id, jobs, total_jobs>>

\* process_jobs from one yield to the next
ProcessJobs ==
    /\ Running("process_jobs")
    /\ now' = Next_ev.time
    /\ events' = Timeout(IF ~busy /\ queue # <<>>
                         THEN Process(Tail(events), Next_ev.time, "start", 0)
                         ELSE Tail(events),
                         Next_ev.time, TICK, "process_jobs", 0)
    /\ UNCHANGED <<arrival_rates, service_rate, status, until, queue, busy, job_id, jobs, total_jobs>>

\* PriorityQueue.start from its creation or a yield to the next yield
QueueStart ==
    /\ Running("start")
    /\ LET r == StartLoop(jobs, queue, Tail(events), Next_ev.time)
       IN  /\ now' = Next_ev.time
           /\ queue' = r.queue
           /\ busy' = r.busy
           /\ events' = r.events
    /\ UNCHANGED <<arrival_rates, service_rate, status, until, job_id, jobs, total_jobs>>

\* Server.serve up to its yield: sample, yield env.timeout(service_time);
\* the sampler's exception leaves the process and ends env.run
ServeInit(s) ==
    /\ Running("serve_init")
    /\ now' = Next_ev.time
    /\ IF ExponentialFails(service_rate)
       THEN /\ status' = "error"
            /\ events' = Tail(events)
       ELSE /\ s \in Exponential(service_rate)
            /\ status' = status
            /\ events' = Timeout(Tail(events), Next_ev.time, s, "serve", Next_ev.arg)
    /\ UNCHANGED <<arrival_rates, service_rate, until, queue, busy, job_id, jobs, total_jobs>>

\* mutant: the sampled duration is stamped instead of the clock
ExitTimeIsDuration(t, ev) == ev.local

\* the departure time Server.serve stamps
ExitTime(t, ev) == t

\* Server.serve after its yield: stamp exit_time, merge it into the record
ServeDone ==
    /\ Running("serve")
    /\ LET t == Next_ev.time
           job == Next_ev.arg
           id == jobs[job].id
           x == ExitTime(t, Next_ev)
       IN  /\ now' = t
           /\ jobs' = [jobs EXCEPT ![job].exit_time = x]
           /\ total_jobs' = [total_jobs EXCEPT ![id] = Merge(total_jobs[id], "exit_time", x)]
           /\ events' = Tail(events)
    /\ UNCHANGED <<arrival_rates, service_rate, status, until, queue, busy, job_id>>

Next ==
    \/ \E u \in Horizons : Start(u)
    \/ Halt
    \/ \E d \in Delays : GenerateInit(d)
    \/ \E d \in Delays : Generate(d)
    \/ ProcessJobs
    \/ QueueStart
    \/ \E s \in Services : ServeInit(s)
    \/ ServeDone

Spec == Init /\ [][Next]_vars

\* simulate_queue called with any rates
ConfigSpec == ConfigInit /\ [][Next]_vars

\* the event loop never pauses while an event it can process is pending
FairSpec == Spec /\ WF_vars(Next)

\* ---- derived sets ----
Admitted == 1 .. job_id
Queued == {queue[i][2] : i \in 1 .. Len(queue)}
\* jobs handed to Server.serve whose exit_time is not stamped yet
InService == {events[i].arg : i \in {k \in 1 .. Len(events) :
                                      events[k].kind \in {"serve_init", "serve"}}}

TypeOK ==
    /\ status \in {"created", "running", "halted", "error"}
    /\ now \in 0 .. MaxUntil
    /\ busy \in BOOLEAN
    /\ job_id \in Nat
    /\ Len(jobs) = job_id

\* the jobs of the serve processes created and not yet started, in creation
\* order.  PriorityQueue.start pops until the queue is empty without
\* suspending, and the Initialize events it creates are URGENT, so these are
\* jobs popped by one run of its loop, in pop order; the jobs still queued at
\* the moment one of them was popped are those that follow it here.
Dispatched == LET S == SelectSeq(events, LAMBDA e : e.kind = "serve_init")
              IN  [i \in 1 .. Len(S) |-> S[i].arg]

HasExit(id) == "exit_time" \in DOMAIN total_jobs[id]

\* ---------------------------------------------------------------------------
\* C1: single-server exclusivity -- in every reachable state at most one job
\* is in service (handed to Server.serve and not yet stamped with exit_time).
C1_SingleServerExclusivity == Cardinality(InService) <= 1

\* ---------------------------------------------------------------------------
\* C2: FIFO within a class -- whenever PriorityQueue.start pops a job, no job
\* of the same class with a smaller id is still in the queue: of two jobs of
\* one class popped by the same run of the loop, the smaller id is popped first.
C2_FifoWithinClass ==
    \A i, k \in DOMAIN Dispatched :
        (i < k /\ jobs[Dispatched[i]].priority = jobs[Dispatched[k]].priority)
            => Dispatched[i] < Dispatched[k]

\* ---------------------------------------------------------------------------
\* C3: strict priority across classes -- whenever PriorityQueue.start pops a
\* job of class c, no job of a class lower than c is in the queue at that
\* moment: no job popped later by the same run of the loop has a lower class.
C3_StrictPriority ==
    \A i, k \in DOMAIN Dispatched :
        i < k => jobs[Dispatched[i]].priority <= jobs[Dispatched[k]].priority

\* a job of the lower class was admitted later and is popped first
C3_Witness ==
    \E i, k \in DOMAIN Dispatched :
        /\ i < k
        /\ jobs[Dispatched[i]].priority < jobs[Dispatched[k]].priority
        /\ Dispatched[i] > Dispatched[k]

\* ---------------------------------------------------------------------------
\* C4: every record that carries an exit_time has exit_time >= enter_time.
C4_ExitAfterEnter ==
    \A id \in DOMAIN total_jobs :
        HasExit(id) => total_jobs[id].exit_time >= total_jobs[id].enter_time

\* a job admitted after time 0 has departed, after a service of positive length
C4_Witness ==
    \E id \in DOMAIN total_jobs :
        /\ HasExit(id)
        /\ total_jobs[id].enter_time > 0
        /\ total_jobs[id].exit_time > total_jobs[id].enter_time

\* ---------------------------------------------------------------------------
\* C5: a job's departure time is set exactly once -- no job ever has more than
\* one serve process, a job whose exit_time is set has none, and once
\* total_jobs[id]['exit_time'] is set no step changes the record.
ServeCount(evs, id) ==
    Cardinality({i \in 1 .. Len(evs) : evs[i].kind \in {"serve_init", "serve"} /\ evs[i].arg = id})

StartCount == Cardinality({i \in 1 .. Len(events) : events[i].kind = "start"})

C5_DepartureSetOnce ==
    [][\A id \in DOMAIN total_jobs :
          /\ ServeCount(events', id) <= 1
          /\ HasExit(id) => /\ total_jobs'[id] = total_jobs[id]
                            /\ jobs'[id].exit_time = jobs[id].exit_time
                            /\ ServeCount(events', id) = 0]_vars

\* a job departed at an earlier instant, a job is in service, and several
\* dispatchers are alive
C5_Witness ==
    /\ StartCount >= 2
    /\ InService # {}
    /\ \E id \in DOMAIN total_jobs : HasExit(id) /\ total_jobs[id].exit_time < now

\* ---------------------------------------------------------------------------
\* C6: record completeness -- total_jobs holds exactly one record per admitted
\* job id, with the job's class and admission time; the record carries
\* exit_time exactly when the job has completed service (it is neither queued
\* nor in service).
Completed == Admitted \ (Queued \cup InService)

C6_RecordCompleteness ==
    /\ DOMAIN total_jobs = Admitted
    /\ \A id \in Admitted :
        /\ {"priority", "enter_time"} \subseteq DOMAIN total_jobs[id]
        /\ total_jobs[id].priority = jobs[id].priority
        /\ total_jobs[id].priority \in Classes
        /\ total_jobs[id].enter_time = jobs[id].enter_time
        /\ total_jobs[id].enter_time \in 0 .. now
        /\ \A k \in Admitted : k < id => total_jobs[k].enter_time <= total_jobs[id].enter_time
        /\ HasExit(id) <=> id \in Completed
        /\ HasExit(id) => total_jobs[id].exit_time = jobs[id].exit_time
        /\ DOMAIN total_jobs[id] \subseteq {"priority", "enter_time", "exit_time"}

\* the horizon is reached with one job departed, one in service and one queued
C6_Witness ==
    /\ status = "halted"
    /\ Completed # {}
    /\ \E id \in InService : ~HasExit(id)
    /\ \E id \in Queued : ~HasExit(id)

\* ---------------------------------------------------------------------------
\* C10: bounded dispatch latency -- a job that is first in the queue while no
\* job is in service is dispatched at most one time unit later: it is not in
\* the queue any more once the clock is more than one unit past its admission.
C10_BoundedDispatchLatency ==
    (queue # <<>> /\ InService = {})
        => now <= jobs[queue[1][2]].enter_time + TICK

\* the first job of the queue has waited a whole time unit, the server idle
C10_Witness ==
    /\ status = "running"
    /\ queue # <<>>
    /\ InService = {}
    /\ now = jobs[queue[1][2]].enter_time + TICK

\* ---------------------------------------------------------------------------
\* The run that samples an interarrival delay of 0 once more than the model
\* follows: the generator's resumption is the next event, due at the current
\* instant.  The code admits the job and samples again; with 0 sampled every
\* time it does so without end and the clock stays where it is.
ZeroDelaysExceeded == Running("generate") /\ Next_ev.local = 0 /\ ~ZeroBudgetLeft

JobIds == 1 .. (NClasses * (MaxUntil - 1) + MaxZeroDelays)

\* the horizon came before the job could be dispatched or before its service
\* was over: the run has halted and the job is queued since less than a
\* polling period, or its serve process is due at the horizon or later
CutByHorizon(id) ==
    /\ status = "halted"
    /\ \/ id \in Queued /\ jobs[id].enter_time + TICK >= until
       \/ \E i \in 1 .. Len(events) :
            events[i].kind = "serve" /\ events[i].arg = id /\ events[i].time >= until

Departed(id) == id \in DOMAIN total_jobs /\ HasExit(id)

InvalidConfig ==
    \/ \E c \in Classes : arrival_rates[c] <= 0
    \/ service_rate <= 0
    \/ (status # "created" /\ until <= 0)

\* C11: configuration errors fail fast -- a call with a non-positive arrival
\* rate, service rate or horizon ends in an error before the run starts, with
\* no job admitted and no record produced.
\* Stated on what the call reaches, whenever the error is raised: it admits
\* no job, writes no record and does not end normally.
C11_ConfigErrorsFailFast ==
    InvalidConfig => (status # "halted" /\ job_id = 0 /\ DOMAIN total_jobs = {})

\* ---------------------------------------------------------------------------
Called == status # "created"

\* C12 as stated: simulate_queue called with until = 0 completes immediately
\* without error and returns zero records.
C12_HorizonZeroCompletes ==
    (Called /\ until = 0) => (status = "halted" /\ DOMAIN total_jobs = {})

\* C12 amended: simulate_queue called with until = 0 ends immediately with an
\* error (env.run raises ValueError): no event is processed, no job is
\* admitted and no record is returned.
C12_HorizonZeroFails ==
    (Called /\ until = 0)
        => /\ status = "error"
           /\ now = 0
           /\ events = InitEvents(NClasses)
           /\ job_id = 0
           /\ DOMAIN total_jobs = {}

\* the call with until = 0 has been made
C12_Witness == Called /\ until = 0 /\ status = "error"

\* ---------------------------------------------------------------------------
\* C13: job identities are unique and strictly increasing in admission order:
\* the k-th admitted job gets id k, whichever generator admits it, and the
\* counter is the number of jobs admitted.
C13_IdsCountAdmissions ==
    /\ job_id = Len(jobs)
    /\ \A k \in 1 .. Len(jobs) : jobs[k].id = k
    /\ \A k, l \in 1 .. Len(jobs) : k < l => jobs[k].enter_time <= jobs[l].enter_time

\* two generators have admitted jobs at the same instant
C13_Witness ==
    \E k \in 1 .. (Len(jobs) - 1) :
        /\ jobs[k].enter_time = jobs[k + 1].enter_time
        /\ jobs[k].priority # jobs[k + 1].priority
        /\ jobs[k + 1].id = k + 1

\* ---------------------------------------------------------------------------
\* C14: one dispatch per cycle -- a dispatcher removes at most one job from
\* the queue between two of its suspensions: no step of PriorityQueue.start
\* shortens the queue by more than one job.
C14_OneDispatchPerCycle ==
    [][Running("start") => Len(queue') >= Len(queue) - 1]_vars

\* ---------------------------------------------------------------------------
\* C15: busy-flag discipline -- every pop-and-dispatch of PriorityQueue.start
\* is taken with the busy flag False: in each pass of a dispatcher that is
\* about to run, busy is False when the pass begins.
C15_BusyFlagDiscipline ==
    Running("start") =>
        \A i \in DOMAIN StartBusy(jobs, queue, busy) : ~StartBusy(jobs, queue, busy)[i]

\* ---------------------------------------------------------------------------
\* the places a job can be in: the queue (once per entry), a serve process
InQueue(q, j) == Cardinality({i \in 1 .. Len(q) : q[i][2] = j})

\* 1 queued, 2 in service, 3 completed; 0 when the job is in none of the
\* three or in more than one
Phase(J, q, evs, j) ==
    LET queued == InQueue(q, j) = 1 /\ ServeCount(evs, j) = 0 /\ J[j].exit_time = None
        serving == InQueue(q, j) = 0 /\ ServeCount(evs, j) = 1 /\ J[j].exit_time = None
        done == InQueue(q, j) = 0 /\ ServeCount(evs, j) = 0 /\ J[j].exit_time # None
    IN  IF queued THEN 1 ELSE IF serving THEN 2 ELSE IF done THEN 3 ELSE 0

\* C16: job lifecycle and queue content -- each admitted job is in exactly one
\* of the states queued, in service, completed and moves only forward; the
\* queue holds each waiting job once and no job that has begun service, and
\* no job is put back into the queue.
C16_JobLifecycle ==
    [][/\ \A j \in 1 .. Len(jobs') : Phase(jobs', queue', events', j) \in {1, 2, 3}
       /\ \A j \in 1 .. Len(jobs) :
            Phase(jobs, queue, events, j) <= Phase(jobs', queue', events', j)
       /\ \A j \in 1 .. Len(jobs') : j > Len(jobs) => Phase(jobs', queue', events', j) = 1]_vars

\* a job is queued, another in service and a third completed
C16_Witness ==
    /\ \E j \in 1 .. Len(jobs) : Phase(jobs, queue, events, j) = 1
    /\ \E j \in 1 .. Len(jobs) : Phase(jobs, queue, events, j) = 2
    /\ \E j \in 1 .. Len(jobs) : Phase(jobs, queue, events, j) = 3

\* ---------------------------------------------------------------------------
\* C17: the busy flag is False at every suspension point of every process, so
\* the test `not self.queue.busy` of process_jobs is true every time,
\* whatever the number of jobs in service.
C17_BusyFalseAtSuspension == busy = FALSE

\* a poller is about to test the flag with jobs queued and two jobs in service
C17_Witness ==
    /\ Running("process_jobs")
    /\ queue # <<>>
    /\ Cardinality(InService) >= 2
    /\ ~busy

\* ---------------------------------------------------------------------------
\* C18: at most one PriorityQueue.start dispatcher process is alive at any
\* time (a dispatcher never returns: it is alive while an event of it is
\* pending).
C18_OneDispatcher == StartCount <= 1

\* ---------------------------------------------------------------------------
\* C19: the completion step of Server.serve for job j changes only the
\* exit_time of j's record: the record's priority and enter_time, every other
\* job's record, the queue content and the job id counter are unchanged.
C19_ServeFrame ==
    [][Running("serve") =>
        LET id == jobs[Next_ev.arg].id
        IN  /\ queue' = queue
            /\ job_id' = job_id
            /\ DOMAIN total_jobs' = DOMAIN total_jobs
            /\ \A k \in DOMAIN total_jobs : k # id => total_jobs'[k] = total_jobs[k]
            /\ DOMAIN total_jobs'[id] = {"priority", "enter_time", "exit_time"}
            /\ total_jobs'[id].priority = total_jobs[id].priority
            /\ total_jobs'[id].enter_time = total_jobs[id].enter_time
            /\ total_jobs'[id].exit_time = now']_vars

\* a job has completed while other jobs are recorded and one is queued
C19_Witness ==
    /\ queue # <<>>
    /\ \E id, k \in DOMAIN total_jobs :
        /\ id # k
        /\ HasExit(id)
        /\ total_jobs[id].exit_time = now
        /\ ~HasExit(k)

====
